---- MODULE Spec2Model ----
(***************************************************************************)
(* BeepSat monitoring dashboards: the telemetry history, the producer      *)
(* threads, the queue between producer and UI, and the telemetry line      *)
(* parsers of the dashboard scripts.                                       *)
(*                                                                         *)
(* Every script is an independent program.  The variable `variant` is      *)
(* chosen in Init and never changes: a behaviour is a run of one script.   *)
(***************************************************************************)
EXTENDS Naturals, Integers, Sequences, FiniteSets, TLC

(***************************************************************************)
(* Bounds of the model.                                                    *)
(***************************************************************************)
\* the deque capacities of the scripts are divided by Scale
Scale == 34
\* max_points of the plot series of the tkinter dashboards is divided by
\* PlotScale
PlotScale == 20
\* the clock of the render-loop scripts stops at MaxTime half-seconds
MaxTime == 11
\* samples a run of a threaded script may produce
MaxPuts == 3
\* producer threads that can exist at the same time
MaxThreads == 2
\* lines buffered in a subprocess pipe
MaxPipe == 1
\* tokens of a line given to the parsers
MaxLineLen == 5
\* values in a list given to the peak finder
MaxSamples == 5
\* values in a list given to calculate_stats
MaxStatSamples == 9
\* the longest time since a simulator was started, in units of eight hours
MaxElapsed == 6
\* increments of its counters one simulator instance makes
MaxIncrements == 2
\* values in a list given to analyze_signal_peaks
MaxAnalysed == 12

(***************************************************************************)
(* Program constants: deque(maxlen=...) of each script.                    *)
(***************************************************************************)
SimpleStatsMaxlen == 200
StatsMaxlen == 200
FixedMaxlen == 150
EnhancedMaxlen == 200
IntegratedMaxlen == 100
StreamlitMaxlen == 100
DebugMaxlen == 100
VisualMaxlen == 200
GroundStationMaxlen == 200
MonitorMaxlen == 50
\* max_points of visual_dashboard and the maxlen of the plot series of
\* ground_station_dashboard
VisualMaxPoints == 50
GroundStationMaxPoints == 100

RenderVariants == {"simple_stats", "stats", "fixed", "enhanced"}
SleepLoopVariants == {"integrated", "ground_station"}
PipeQueueVariants == {"streamlit", "debug", "visual"}
QueueVariants == SleepLoopVariants \cup PipeQueueVariants
PipeVariants == PipeQueueVariants \cup {"telemetry_monitor"}
ThreadVariants == QueueVariants \cup {"telemetry_monitor"}
ViewerVariants == {"simple_telemetry_viewer"}
\* the tkinter dashboards
TkVariants == {"visual", "ground_station"}
\* the classes SignalProcessor and SimpleStatCalculator of
\* simple_stats_dashboard, called on a list of values
PeakVariants == {"signal_processor"}
StatVariants == {"stat_calculator"}
\* SignalProcessor.analyze_signal_peaks, called on a list of values
AnalyzerVariants == {"signal_analyzer"}
AnalysisVariants == PeakVariants \cup StatVariants \cup AnalyzerVariants
\* the simulator classes: IntegratedBeepSatSimulator of integrated_dashboard
\* and the BeepSatSimulator of fixed_dashboard and of simple_stats_dashboard
SimulatorVariants ==
  {"integrated_simulator", "fixed_simulator", "simple_stats_simulator"}
Variants == RenderVariants \cup ThreadVariants \cup ViewerVariants
              \cup AnalysisVariants \cup SimulatorVariants

\* voltages are in hundredths of a volt
BatteryBase == 740
LowBatteryThreshold == 600

Maxlen(v) ==
  CASE v = "simple_stats" -> SimpleStatsMaxlen
    [] v = "stats" -> StatsMaxlen
    [] v = "fixed" -> FixedMaxlen
    [] v = "enhanced" -> EnhancedMaxlen
    [] v = "integrated" -> IntegratedMaxlen
    [] v = "streamlit" -> StreamlitMaxlen
    [] v = "debug" -> DebugMaxlen
    [] v = "visual" -> VisualMaxlen
    [] v = "ground_station" -> GroundStationMaxlen
    [] v = "telemetry_monitor" -> MonitorMaxlen
    [] OTHER -> 0

\* the capacity the model gives the history of script v
Capacity(v) == Maxlen(v) \div Scale

Min(a, b) == IF a < b THEN a ELSE b

(***************************************************************************)
(* collections.deque(maxlen=n).append(x): the oldest element is discarded  *)
(* when the deque is full.                                                 *)
(***************************************************************************)
\* a list without maxlen, to compare with
DequeAppendUnbounded(d, x, n) == Append(d, x)

DequeAppend(d, x, n) ==
  IF n = 0 THEN <<>>
  ELSE IF Len(d) >= n THEN Append(SubSeq(d, Len(d) - n + 2, Len(d)), x)
  ELSE Append(d, x)

(***************************************************************************)
(* Telemetry lines.  A line is a sequence of tokens:                       *)
(*   "M"  the text TELEMETRY_OUTPUT:      "T"  the text TELEM:             *)
(*   "{"  "}"  braces      "k"  the text "a":1 (one member of an object)   *)
(*   "b"  the text "power_status":1 (a member the dashboards take for a    *)
(*        mapping)                                                         *)
(*   "x"  any other text   "E"  text holding a keyword the script logs     *)
(* The newline that ends a line is JSON whitespace and is left out.        *)
(***************************************************************************)
ParseTokens == {"M", "T", "{", "}", "k", "b", "x"}
Markers == {"M", "T"}

None == "None"
EmptyObject == "{}"
Object == "{k}"
\* an object whose power_status is a number
Misshapen == "{b}"
JSONDecodeError == "JSONDecodeError"

\* str.find: the first index of tok in line, 0 when there is none
Find(line, tok) ==
  IF \E i \in 1..Len(line) : line[i] = tok
  THEN CHOOSE i \in 1..Len(line) :
         line[i] = tok /\ \A j \in 1..(i - 1) : line[j] # tok
  ELSE 0

\* the last index of tok in line, 0 when there is none
RFind(line, tok) ==
  IF \E i \in 1..Len(line) : line[i] = tok
  THEN CHOOSE i \in 1..Len(line) :
         line[i] = tok /\ \A j \in (i + 1)..Len(line) : line[j] # tok
  ELSE 0

\* 'TELEMETRY_OUTPUT:' in line or 'TELEM:' in line
HasMarker(line) == \E i \in 1..Len(line) : line[i] \in Markers

\* json.loads(text): the object, or JSONDecodeError
JsonLoads(text) ==
  IF text = <<"{", "}">> THEN EmptyObject
  ELSE IF text = <<"{", "k", "}">> THEN Object
  ELSE IF text = <<"{", "b", "}">> THEN Misshapen
  ELSE JSONDecodeError

\* line[json_start:] with json_start = line.find('{'); <<>> when find gives -1
FindText(line) ==
  IF Find(line, "{") = 0 THEN <<>>
  ELSE SubSeq(line, Find(line, "{"), Len(line))

\* re.search(r'\{.*\}', line).group(): from the first '{' to the last '}';
\* <<>> when there is no match
RegexText(line) ==
  IF Find(line, "{") = 0 \/ RFind(line, "}") < Find(line, "{") THEN <<>>
  ELSE SubSeq(line, Find(line, "{"), RFind(line, "}"))

\* the scripts whose parser slices the line at find('{')
FindParsers == {"telemetry_monitor", "debug", "ground_station"}
\* the scripts whose parser searches the line with the regular expression
RegexParsers == {"streamlit", "visual", "simple_telemetry_viewer"}
Parsers == FindParsers \cup RegexParsers

\* the text script v hands to json.loads for a marked line
JsonText(v, line) == IF v \in FindParsers THEN FindText(line) ELSE RegexText(line)

\* whether json.loads raises JSONDecodeError in script v on this line
DecodeFails(v, line) ==
  /\ HasMarker(line)
  /\ JsonText(v, line) # <<>>
  /\ JsonLoads(JsonText(v, line)) = JSONDecodeError

\* a parser that takes whatever text it finds for an object, to compare with
ParseTelemetryLineLenient(v, line) ==
  IF HasMarker(line) /\ JsonText(v, line) # <<>> THEN Object ELSE None

\* parse_telemetry_line of script v: the object parsed, or None
ParseTelemetryLine(v, line) ==
  IF HasMarker(line) /\ JsonText(v, line) # <<>> /\ ~DecodeFails(v, line)
  THEN JsonLoads(JsonText(v, line))
  ELSE None

\* Python truth value of what parse_telemetry_line returned ("if data:")
Truthy(data) == data \in {Object, Misshapen}

(***************************************************************************)
(* Numbers.  The analysis functions work on Python floats.  A float of the *)
(* model is a natural number with at most MantissaBits significant bits    *)
(* (53 in Python); the result of an operation is the exact result rounded  *)
(* to the nearest float, a tie to the one with the even mantissa.  Below   *)
(* 2^MantissaBits every natural number is a float, as the subnormal        *)
(* numbers of the binary64 format are equally spaced.                      *)
(***************************************************************************)
MantissaBits == 3

Max(a, b) == IF a > b THEN a ELSE b
Abs(a) == IF a < 0 THEN 0 - a ELSE a

\* the distance between neighbouring floats at the rational num / den > 0
RECURSIVE UnitFrom(_, _, _)
UnitFrom(num, den, u) ==
  IF u * (2 ^ MantissaBits) * den <= num THEN UnitFrom(num, den, 2 * u)
  ELSE u

\* the float nearest to num / den (den > 0), round-half-to-even
Round(num, den) ==
  IF num = 0 THEN 0
  ELSE LET a == Abs(num)
           u == UnitFrom(a, den, 1)
           q == a \div (den * u)
           r == a % (den * u)
           up == 2 * r > den * u \/ (2 * r = den * u /\ q % 2 = 1)
       IN (IF up THEN q + 1 ELSE q) * u * (IF num < 0 THEN 0 - 1 ELSE 1)

FAdd(a, b) == Round(a + b, 1)
FSub(a, b) == Round(a - b, 1)
FDiv(a, b) == Round(a, b)

\* sum(vals): the additions are made from left to right, starting from 0
RECURSIVE FSum(_)
FSum(vals) ==
  IF vals = <<>> THEN 0
  ELSE FAdd(FSum(SubSeq(vals, 1, Len(vals) - 1)), vals[Len(vals)])

\* the readings given to the analysis functions: the floats of one binade
Readings == {x \in (2 ^ (MantissaBits + 1))..(2 ^ (MantissaBits + 2) - 1) :
               Round(x, 1) = x}
Inputs == UNION {[1..n -> Readings] : n \in 0..MaxSamples}
\* longer lists of two of the readings for calculate_stats
StatInputs ==
  UNION {[1..n -> {2 ^ (MantissaBits + 1), 3 * 2 ^ MantissaBits}] :
           n \in 0..MaxStatSamples}
\* lists for analyze_signal_peaks with one strict maximum at index p: the
\* values fall by `step` a sample on both sides of p, and the first value
\* lies `drop` lower still
Ramps ==
  UNION {{[k \in 1..n |->
             1000 - step * Abs((k - 1) - p) - (IF k = 1 THEN drop ELSE 0)] :
            p \in 1..(n - 2), step \in {1, 20}, drop \in {0, 900}} :
           n \in 5..MaxAnalysed}
\* the lists script v may be given
InputsOf(v) ==
  IF v \in PeakVariants THEN Inputs
  ELSE IF v \in StatVariants THEN StatInputs
  ELSE IF v \in AnalyzerVariants THEN Inputs \cup Ramps
  ELSE {<<>>}

\* Python indexes a list from 0
At(vals, i) == vals[i + 1]

(***************************************************************************)
(* State.                                                                  *)
(***************************************************************************)
VARIABLES
  variant,                \* the script that runs
  now,                    \* time.time(), in half-seconds
  monitoring,             \* monitoring / running / is_monitoring flag
  telemetry_data,         \* the history deque (data_history, telemetry_history)
  plots,                  \* the plot series of the tkinter dashboards
  current_data,           \* current_data / latest_data: <<>> is {}
  mission_start_time,     \* <<>> is None, <<t>> is the time t
  last_telemetry_time,
  data_points_generated,
  uiPc,                   \* where the UI thread is in its render cycle
  telemetry_queue,        \* queue.Queue between producer and UI
  tpc,                    \* where each producer thread is; "dead": no such thread
  proc,                   \* the subprocess of each thread: none, running, exited
  pipe,                   \* lines the subprocess has written and the thread not read
  beepsat_process,        \* 0 is None, t the subprocess thread t started
  simRunning,             \* simulator.running of integrated_dashboard
  nput,                   \* samples created so far; the next sample gets id nput + 1
  moved,                  \* ids appended to the history so far, in order
  clearedAt,              \* Len(moved) when the history was last cleared
  dropped,                \* ids taken off the queue without reaching the history
  last,                   \* the step taken last and the log entries it wrote
  line,                   \* parser check: the line given to the parsers
  parsed,                 \* parser check: what each script's parser returned
  values,                 \* the list given to the analysis functions
  result,                 \* the call made last and what it returned
  simulator               \* the fields of the simulator instance

Threads == 1..MaxThreads

uiVars == <<monitoring, telemetry_data, plots, current_data, mission_start_time,
            last_telemetry_time, data_points_generated, simRunning>>
threadVars == <<tpc, proc, pipe, beepsat_process>>
ghostVars == <<nput, moved, clearedAt, dropped>>
calcVars == <<values, result, simulator>>
parseVars == <<line, parsed, calcVars>>
vars == <<variant, now, uiPc, telemetry_queue, last, uiVars, threadVars,
          ghostVars, parseVars>>

\* what a step records in `last`: its name, its thread (0: the UI thread)
\* and the kinds of log entry it wrote
Step(op, t, log) == [op |-> op, t |-> t, log |-> log]
\* a step that writes no log entry and that no property asks about
Quiet == Step("step", 0, {})

\* a telemetry sample: the id orders the samples of a run, data is the payload
Sample(id, data) == [id |-> id, data |-> data]

Ids(seq) == [i \in 1..Len(seq) |-> seq[i].id]

\* no call of an analysis function has returned
NoResult == [op |-> "none"]

\* __init__ of the simulator classes: random.randint(lo, hi) draws the two
\* lowest values of its range; elapsed is time.time() - start_time, increments
\* counts the "+= 1" made; flags is {} for the classes that keep none.  Of
\* the simulator of a render-loop script the model keeps start_time, which
\* tells a fresh or reset instance from the one before; the other scripts
\* make no instance
NewSimulator(v) ==
  LET randint(lo, hi) == {lo, Min(lo + 1, hi)}
      new(boot, errors, responses, cycles, flags) ==
        {[kind |-> v, elapsed |-> 0, increments |-> 0,
          boot_count |-> b, state_errors |-> e, gs_responses |-> g,
          charge_cycles |-> c, flags |-> flags] :
           b \in boot, e \in errors, g \in responses, c \in cycles}
  IN IF v = "integrated_simulator"
       THEN new(randint(10, 50), randint(0, 5), randint(0, 25), {20},
                <<FALSE>>)
     ELSE IF v = "fixed_simulator"
       THEN new(randint(15, 45), randint(1, 8), randint(5, 30), {25}, <<>>)
     ELSE IF v = "simple_stats_simulator"
       THEN new(randint(15, 45), randint(1, 8), randint(5, 30), {0}, <<>>)
     ELSE IF v \in RenderVariants
       THEN {[kind |-> "BeepSatSimulator", start_time |-> 1]}
     ELSE {[kind |-> "none"]}

\* the five deques of a tkinter dashboard, empty; each holds the ids of the
\* samples its values were taken from.  The other scripts keep no series.
NoPlots ==
  [timestamps |-> <<>>, battery_voltages |-> <<>>, rssi_values |-> <<>>,
   error_counts |-> <<>>, uptime_values |-> <<>>]

InitState(v) ==
  /\ variant = v
  /\ now = 1
  /\ monitoring = FALSE
  /\ telemetry_data = <<>>
  /\ plots = IF v \in TkVariants THEN NoPlots ELSE <<>>
  /\ current_data = <<>>
  /\ mission_start_time = <<>>
  /\ last_telemetry_time = 0
  /\ data_points_generated = 0
  /\ uiPc = "top"
  /\ telemetry_queue = <<>>
  /\ tpc = [t \in Threads |-> "dead"]
  /\ proc = [t \in Threads |-> "none"]
  /\ pipe = [t \in Threads |-> 0]
  /\ beepsat_process = 0
  /\ simRunning = FALSE
  /\ nput = 0
  /\ moved = <<>>
  /\ clearedAt = 0
  /\ dropped = {}
  /\ last = Step("init", 0, {})
  /\ line = <<>>
  /\ parsed = [p \in Parsers |-> None]
  /\ values \in InputsOf(v)
  /\ result = NoResult
  /\ simulator \in NewSimulator(v)

(***************************************************************************)
(* The render-loop scripts: simple_stats, stats, fixed and enhanced        *)
(* dashboard.  main() calls generate_telemetry_data(), handles the button  *)
(* that was clicked, renders, sleeps one second and reruns.                *)
(***************************************************************************)
\* the 0.5 of "current_time - last_telemetry_time >= 0.5", in half-seconds
GenerationPeriod == 1
\* time.sleep(1) at the end of main(), in half-seconds
RefreshSleep == 2

\* the capacity the model gives each plot series of script v
PlotCapacity(v) ==
  (IF v = "visual" THEN VisualMaxPoints ELSE GroundStationMaxPoints)
    \div PlotScale

\* the appends of process_telemetry_data / process_data for one sample, in
\* the order of the statements: timestamps, then power_status.get(...), which
\* raises AttributeError when power_status is no mapping and ends the call
PlotSample(p, s) ==
  LET added(series) == DequeAppend(series, s.id, PlotCapacity(variant))
  IN IF s.data = Misshapen
     THEN [p EXCEPT !.timestamps = added(@)]
     ELSE [timestamps |-> added(p.timestamps),
           battery_voltages |-> added(p.battery_voltages),
           rssi_values |-> added(p.rssi_values),
           error_counts |-> added(p.error_counts),
           uptime_values |-> added(p.uptime_values)]

\* an append that leaves current_data alone, to compare with
StoreSampleOnly(s) ==
  /\ telemetry_data' = DequeAppend(telemetry_data, s, Capacity(variant))
  /\ plots' = IF variant \in TkVariants THEN PlotSample(plots, s) ELSE plots
  /\ current_data' = current_data
  /\ moved' = Append(moved, s.id)

\* telemetry_data.append(telemetry); current_data = telemetry (the ground
\* station dashboard keeps no current_data)
StoreSample(s) ==
  /\ telemetry_data' = DequeAppend(telemetry_data, s, Capacity(variant))
  /\ plots' = IF variant \in TkVariants THEN PlotSample(plots, s) ELSE plots
  /\ current_data' = IF variant = "ground_station" THEN current_data ELSE <<s>>
  /\ moved' = Append(moved, s.id)

\* the scripts that keep a mission log (add_log_message)
LoggingRender == {"fixed", "enhanced"}
RenderLog(kind) == IF variant \in LoggingRender THEN {kind} ELSE {}

\* the same without the test of the flag, to compare with
GenerateDueStopped == now - last_telemetry_time >= GenerationPeriod

GenerateDue == monitoring /\ now - last_telemetry_time >= GenerationPeriod

GenerateTelemetryData ==
  /\ variant \in RenderVariants
  /\ uiPc = "top"
  /\ IF GenerateDue
     THEN /\ StoreSample(Sample(nput + 1, Object))
          /\ nput' = nput + 1
          /\ last_telemetry_time' = now
          /\ data_points_generated' = data_points_generated + 1
          /\ last' = Step("generate", 0, {})
     ELSE /\ UNCHANGED <<telemetry_data, plots, current_data, moved, nput,
                         last_telemetry_time, data_points_generated>>
          /\ last' = Quiet
  /\ uiPc' = "buttons"
  /\ UNCHANGED <<variant, now, monitoring, mission_start_time, simRunning,
                 telemetry_queue, threadVars, clearedAt, dropped, parseVars>>

\* start_monitoring without "if not st.session_state.monitoring:", to compare
\* with
RenderStartUnguarded ==
  /\ variant \in RenderVariants
  /\ uiPc = "buttons"
  /\ monitoring' = TRUE
  /\ mission_start_time' = <<now>>
  /\ simulator' = [simulator EXCEPT !.start_time = now]
  /\ last_telemetry_time' = now
  /\ data_points_generated' = 0
  /\ last' = Step("start", 0, RenderLog("started"))
  /\ uiPc' = "top"
  /\ UNCHANGED <<variant, now, telemetry_data, plots, current_data, simRunning,
                 telemetry_queue, threadVars, ghostVars, line, parsed, values,
                 result>>

\* start_monitoring; "simulator = BeepSatSimulator()" makes a fresh instance
RenderStart ==
  /\ variant \in RenderVariants
  /\ uiPc = "buttons"
  /\ IF ~monitoring
     THEN /\ monitoring' = TRUE
          /\ mission_start_time' = <<now>>
          /\ simulator' = [simulator EXCEPT !.start_time = now]
          /\ last_telemetry_time' = now
          /\ data_points_generated' = 0
          /\ last' = Step("start", 0, RenderLog("started"))
     ELSE /\ UNCHANGED <<monitoring, mission_start_time, simulator,
                         last_telemetry_time, data_points_generated>>
          /\ last' = Step("start", 0, {})
  /\ uiPc' = "top"
  /\ UNCHANGED <<variant, now, telemetry_data, plots, current_data, simRunning,
                 telemetry_queue, threadVars, ghostVars, line, parsed, values,
                 result>>

RenderStop ==
  /\ variant \in RenderVariants
  /\ uiPc = "buttons"
  /\ IF monitoring
     THEN /\ monitoring' = FALSE
          /\ last' = Step("stop", 0, RenderLog("stopped"))
     ELSE /\ UNCHANGED monitoring
          /\ last' = Step("stop", 0, {})
  /\ uiPc' = "top"
  /\ UNCHANGED <<variant, now, telemetry_data, plots, current_data, mission_start_time,
                 last_telemetry_time, data_points_generated, simRunning,
                 telemetry_queue, threadVars, ghostVars, parseVars>>

\* a reset that leaves the history alone, to compare with
RenderResetKeepsHistory ==
  /\ variant \in RenderVariants
  /\ uiPc = "buttons"
  /\ monitoring' = FALSE
  /\ current_data' = <<>>
  /\ mission_start_time' = <<>>
  /\ last_telemetry_time' = 0
  /\ data_points_generated' = 0
  /\ simulator' = IF variant \in LoggingRender
                  THEN [simulator EXCEPT !.start_time = now] ELSE simulator
  /\ last' = Step("reset", 0, RenderLog("reset"))
  /\ uiPc' = "top"
  /\ UNCHANGED <<variant, now, simRunning, telemetry_queue, telemetry_data, plots,
                 threadVars, ghostVars, line, parsed, values, result>>

\* reset_mission: stop_monitoring() when active, then the clears;
\* fixed_dashboard and enhanced_dashboard call simulator.reset() as well
RenderReset ==
  /\ variant \in RenderVariants
  /\ uiPc = "buttons"
  /\ monitoring' = (IF monitoring THEN FALSE ELSE monitoring)
  /\ telemetry_data' = <<>>
  /\ plots' = plots
  /\ current_data' = <<>>
  /\ mission_start_time' = <<>>
  /\ last_telemetry_time' = 0
  /\ data_points_generated' = 0
  /\ clearedAt' = Len(moved)
  /\ simulator' = IF variant \in LoggingRender
                  THEN [simulator EXCEPT !.start_time = now] ELSE simulator
  /\ last' = Step("reset", 0, RenderLog("reset"))
  /\ uiPc' = "top"
  /\ UNCHANGED <<variant, now, simRunning, telemetry_queue, threadVars,
                 nput, moved, dropped, line, parsed, values, result>>

\* no button was clicked: the script renders and goes to sleep
RenderNoClick ==
  /\ variant \in RenderVariants
  /\ uiPc = "buttons"
  /\ uiPc' = "sleep"
  /\ last' = Quiet
  /\ UNCHANGED <<variant, now, telemetry_queue, uiVars, threadVars, ghostVars,
                 parseVars>>

\* time.sleep(1); st.rerun().  A click on a widget ends the sleep early.
RenderSleep ==
  /\ variant \in RenderVariants
  /\ uiPc = "sleep"
  /\ \E d \in 0..RefreshSleep :
       /\ now + d <= MaxTime
       /\ now' = now + d
  /\ uiPc' = "top"
  /\ last' = Quiet
  /\ UNCHANGED <<variant, telemetry_queue, uiVars, threadVars, ghostVars,
                 parseVars>>

RenderNext ==
  \/ GenerateTelemetryData
  \/ RenderStart
  \/ RenderStop
  \/ RenderReset
  \/ RenderNoClick
  \/ RenderSleep

(***************************************************************************)
(* The threaded scripts.  A producer thread puts samples on a queue that   *)
(* the UI thread drains (integrated, streamlit, debug, visual and ground   *)
(* station dashboard) or appends them to the history itself                *)
(* (telemetry_monitor).                                                    *)
(***************************************************************************)
\* the lines a subprocess may print.  A line with a misshapen object is
\* drawn only where the script treats the object differently from a
\* well-shaped one, which is in the tkinter drains.
StdoutLines == {
  <<"M", "{", "k", "}">>,
  <<"T", "{", "k">>,
  <<"M", "{", "k", "}", "x">>,
  <<"M", "{", "}">>,
  <<"T", "{", "E">>,
  <<"x">>,
  <<"E">> }
  \cup (IF variant = "visual" THEN { <<"M", "{", "b", "}">> } ELSE {})

\* a reference to a subprocess whose thread slot has been taken by a newer
\* thread: that subprocess has exited
Stale == MaxThreads + 1

Alive(t) == tpc[t] # "dead"
AliveThreads == {t \in Threads : Alive(t)}
FreeSlots == {t \in Threads : ~Alive(t)}
NewThread == CHOOSE t \in FreeSlots : \A u \in FreeSlots : t <= u

\* threading.Thread(target=...).start(): the thread begins at pc
Spawn(pc) == tpc' = [tpc EXCEPT ![NewThread] = pc]

\* the first position of the thread function of script v
ThreadEntry(v) == IF v \in SleepLoopVariants THEN "check" ELSE "popen"

\* visual_dashboard's thread reads self.beepsat_process each time it uses the
\* subprocess; the other scripts keep it in the local variable `process`
ProcOf(t) == IF variant = "visual" THEN beepsat_process ELSE t

\* process.poll() is None
Running(p) == p \in Threads /\ proc[p] = "running"

\* process.terminate(): nothing happens to a subprocess that has exited.
\* "exited" is a subprocess that ended on its own, "terminated" one that was
\* sent terminate.
Terminated(pr, p) == IF p \in Threads /\ pr[p] = "running"
                     THEN [pr EXCEPT ![p] = "terminated"] ELSE pr
Terminate(p) == proc' = Terminated(proc, p)

\* samples the producers may still create
InFlight == Cardinality({t \in Threads : tpc[t] \in {"chkrun", "put"}})
Buffered == IF MaxThreads = 0 THEN 0
            ELSE LET Sum[n \in 0..MaxThreads] ==
                       IF n = 0 THEN 0 ELSE Sum[n - 1] + pipe[n]
                 IN Sum[MaxThreads]

\* the put of a queue that discards when it holds MaxPuts - 1 samples, to
\* compare with
QueuePutBounded(s) ==
  /\ telemetry_queue' = IF Len(telemetry_queue) < MaxPuts - 1
                        THEN Append(telemetry_queue, s) ELSE telemetry_queue
  /\ nput' = nput + 1

\* queue.put(data) on queue.Queue() (no maxsize): never blocks
QueuePut(s) ==
  /\ telemetry_queue' = Append(telemetry_queue, s)
  /\ nput' = nput + 1

\* "while not queue.empty(): queue.get()" of a reset or a start: what is
\* queued when the loop sees the queue empty is gone
ClearQueue ==
  /\ telemetry_queue' = <<>>
  /\ dropped' = dropped \cup {telemetry_queue[i].id : i \in 1..Len(telemetry_queue)}

\* where the UI thread goes after a button handler: the Streamlit scripts
\* rerun from the top, the tkinter scripts return to the event loop
StreamlitVariants == {"integrated", "streamlit", "debug"}
\* the tkinter event loop with the drain timer pending is "buttons", without
\* it "idle"
AfterHandler == IF variant \in StreamlitVariants THEN "top" ELSE uiPc
\* the UI thread can take a click on a button
AtButtons == uiPc = "buttons" \/ (variant \in TkVariants /\ uiPc = "idle")

(***************************************************************************)
(* The UI thread: process_telemetry_queue / process_data_queue /           *)
(* process_telemetry_data / process_data.                                  *)
(***************************************************************************)
\* a drain that moves one sample and returns, to compare with
DrainCheckOnePass ==
  /\ variant \in QueueVariants
  /\ uiPc = "top"
  /\ IF telemetry_queue = <<>> \/ last.op = "drain_get"
     THEN /\ uiPc' = "buttons"
          /\ last' = Step("drain_end", 0, {})
     ELSE /\ uiPc' = "get"
          /\ last' = Quiet
  /\ UNCHANGED <<variant, now, telemetry_queue, uiVars, threadVars, ghostVars,
                 parseVars>>

\* "while not queue.empty():"
DrainCheck ==
  /\ variant \in QueueVariants
  /\ uiPc = "top"
  /\ IF telemetry_queue = <<>>
     THEN /\ uiPc' = "buttons"
          /\ last' = Step("drain_end", 0, {})
     ELSE /\ uiPc' = "get"
          /\ last' = Quiet
  /\ UNCHANGED <<variant, now, telemetry_queue, uiVars, threadVars, ghostVars,
                 parseVars>>

\* data = queue.get_nowait(); telemetry_data.append(data); current_data = data.
\* In the tkinter drains the labels are updated next: an exception other than
\* queue.Empty leaves the method before root.after(100, ...) is reached.
\* power_status = data.get('power_status', {}); power_status.get(...) in the
\* tkinter drains raises AttributeError when power_status is no mapping; the
\* Streamlit drains only store the sample
DrainGet ==
  /\ variant \in QueueVariants
  /\ uiPc = "get"
  /\ telemetry_queue # <<>>
  /\ StoreSample(Head(telemetry_queue))
  /\ telemetry_queue' = Tail(telemetry_queue)
  /\ IF variant \in TkVariants /\ Head(telemetry_queue).data = Misshapen
     THEN /\ uiPc' = "idle"
          /\ last' = Step("drain_raised", 0, {})
     ELSE /\ uiPc' = "top"
          /\ last' = Step("drain_get", 0, {})
  /\ UNCHANGED <<variant, now, monitoring, mission_start_time,
                 last_telemetry_time, data_points_generated, simRunning,
                 threadVars, nput, clearedAt, dropped, parseVars>>

\* the next run of the drain begins: a rerun of the script with no button
\* clicked, or the tkinter timer root.after(100, ...)
Rerun ==
  /\ variant \in QueueVariants
  /\ uiPc = "buttons"
  /\ uiPc' = "top"
  /\ last' = Quiet
  /\ UNCHANGED <<variant, now, telemetry_queue, uiVars, threadVars, nput, moved,
                 clearedAt, dropped, parseVars>>

HandlerDone == uiPc' = AfterHandler

\* start_monitoring / start_console_monitoring / run
StartMonitoring ==
  /\ variant \in ThreadVariants
  /\ IF variant = "telemetry_monitor" THEN uiPc = "top" ELSE AtButtons
  /\ IF variant \in {"ground_station", "telemetry_monitor"} \/ ~monitoring
     THEN /\ FreeSlots # {}
          /\ monitoring' = TRUE
          /\ Spawn(ThreadEntry(variant))
          /\ mission_start_time' =
               IF variant \in {"integrated", "streamlit"} THEN <<now>>
               ELSE mission_start_time
          /\ simRunning' = (IF variant = "integrated" THEN TRUE ELSE simRunning)
          /\ IF variant = "debug"
             THEN ClearQueue
             ELSE UNCHANGED <<telemetry_queue, dropped>>
          /\ last' = Step("start", 0,
                          IF variant = "ground_station" THEN {} ELSE {"started"})
     ELSE /\ UNCHANGED <<monitoring, tpc, mission_start_time, simRunning,
                         telemetry_queue, dropped>>
          /\ last' = Step("start", 0, {})
  /\ IF variant = "telemetry_monitor"
     THEN uiPc' = "buttons"
     ELSE HandlerDone
  /\ UNCHANGED <<variant, now, telemetry_data, plots, current_data,
                 last_telemetry_time, data_points_generated, proc, pipe,
                 beepsat_process, nput, moved, clearedAt, parseVars>>

\* stop_monitoring / TelemetryReceiver.stop / KeyboardInterrupt in run
StopMonitoring ==
  /\ variant \in ThreadVariants
  /\ AtButtons
  /\ IF variant \in {"ground_station", "telemetry_monitor"} \/ monitoring
     THEN /\ monitoring' = FALSE
          /\ simRunning' = (IF variant = "integrated" THEN FALSE ELSE simRunning)
          /\ IF variant \in PipeQueueVariants /\ beepsat_process # 0
             THEN Terminate(beepsat_process)
             ELSE UNCHANGED proc
          /\ last' = Step("stop", 0,
                          IF variant = "ground_station" THEN {} ELSE {"stopped"})
     ELSE /\ UNCHANGED <<monitoring, simRunning, proc>>
          /\ last' = Step("stop", 0, {})
  /\ IF variant = "telemetry_monitor"
     THEN uiPc' = "exit"
     ELSE HandlerDone
  /\ UNCHANGED <<variant, now, telemetry_data, plots, current_data, mission_start_time,
                 last_telemetry_time, data_points_generated, telemetry_queue,
                 tpc, pipe, beepsat_process, nput, moved, clearedAt, dropped,
                 parseVars>>

\* the scripts with a reset button, and those whose reset empties the queue
ResetVariants == {"integrated", "streamlit", "visual"}
ResetClearsQueue == {"integrated", "visual"}

\* reset_mission (integrated), the "Reset Data" button (streamlit),
\* reset_data (visual)
ResetData ==
  /\ variant \in ResetVariants
  /\ AtButtons
  /\ monitoring' = (IF variant = "integrated" /\ monitoring THEN FALSE
                     ELSE monitoring)
  /\ simRunning' = (IF variant = "integrated" /\ monitoring THEN FALSE
                     ELSE simRunning)
  /\ telemetry_data' = <<>>
  /\ plots' = IF variant = "visual" THEN NoPlots ELSE plots
  /\ current_data' = <<>>
  /\ clearedAt' = Len(moved)
  /\ IF variant \in ResetClearsQueue
     THEN ClearQueue
     ELSE UNCHANGED <<telemetry_queue, dropped>>
  /\ mission_start_time' =
       IF variant = "integrated" THEN <<>> ELSE mission_start_time
  /\ last' = Step("reset", 0,
                  IF variant = "streamlit" THEN {} ELSE {"reset"})
  /\ HandlerDone
  /\ UNCHANGED <<variant, now, last_telemetry_time, data_points_generated,
                 threadVars, nput, moved, parseVars>>

(***************************************************************************)
(* The sleep-loop producers: generate_telemetry_data of the integrated     *)
(* dashboard and TelemetryReceiver._monitor_console of the ground station  *)
(* dashboard.  time.sleep(0.5) is the passage from "put" back to "check".  *)
(***************************************************************************)
\* a loop that never looks at the flag ("while True:"), to compare with
LoopCheckNoPoll(t) ==
  /\ variant \in SleepLoopVariants
  /\ tpc[t] = "check"
  /\ nput + InFlight < MaxPuts
  /\ tpc' = [tpc EXCEPT ![t] = IF variant = "integrated" THEN "chkrun" ELSE "put"]
  /\ last' = Quiet
  /\ UNCHANGED <<variant, now, uiPc, telemetry_queue, uiVars, proc, pipe,
                 beepsat_process, ghostVars, parseVars>>

\* "while st.session_state.monitoring:" / "while self.running:"
LoopCheck(t) ==
  /\ variant \in SleepLoopVariants
  /\ tpc[t] = "check"
  /\ IF monitoring
     THEN /\ nput + InFlight < MaxPuts
          /\ tpc' = [tpc EXCEPT ![t] =
                       IF variant = "integrated" THEN "chkrun" ELSE "put"]
          /\ last' = Quiet
     ELSE /\ tpc' = [tpc EXCEPT ![t] = "dead"]
          /\ last' = Step("flag_cleared", t, {})
  /\ UNCHANGED <<variant, now, uiPc, telemetry_queue, uiVars, proc, pipe,
                 beepsat_process, ghostVars, parseVars>>

\* "if st.session_state.simulator.running:"
CheckRunning(t) ==
  /\ variant = "integrated"
  /\ tpc[t] = "chkrun"
  /\ tpc' = [tpc EXCEPT ![t] = IF simRunning THEN "put" ELSE "check"]
  /\ last' = Quiet
  /\ UNCHANGED <<variant, now, uiPc, telemetry_queue, uiVars, proc, pipe,
                 beepsat_process, ghostVars, parseVars>>

\* telemetry = simulator.generate_telemetry(); telemetry_queue.put(telemetry)
GeneratePut(t) ==
  /\ variant \in SleepLoopVariants
  /\ tpc[t] = "put"
  /\ QueuePut(Sample(nput + 1, Object))
  /\ tpc' = [tpc EXCEPT ![t] = "check"]
  /\ last' = Step("put", t, {})
  /\ UNCHANGED <<variant, now, uiPc, uiVars, proc, pipe, beepsat_process,
                 moved, clearedAt, dropped, parseVars>>

(***************************************************************************)
(* The producers that read a subprocess pipe: monitor_beepsat (streamlit,  *)
(* debug, visual) and monitor_emulation_output (telemetry_monitor).        *)
(***************************************************************************)
\* what script v writes to its log (debug or mission log, console) at event e
Logs(v, e) ==
  CASE e = "no_dir" -> IF v = "streamlit" THEN {} ELSE {"error"}
    [] e = "popen_ok" -> IF v = "streamlit" THEN {} ELSE {"process_started"}
    [] e = "popen_failed" -> IF v = "streamlit" THEN {} ELSE {"failed_to_start"}
    [] e = "decode_error" -> IF v = "debug" THEN {"json_decode_error"} ELSE {}
    [] e = "telemetry" -> IF v = "debug" THEN {"telemetry_parsed"} ELSE {}
    [] e = "keyword_line" -> IF v = "telemetry_monitor" THEN {} ELSE {"line"}
    [] e = "eof" -> IF v \in {"debug", "telemetry_monitor"}
                    THEN {"process_ended"} ELSE {}
    [] e = "read_error" -> IF v = "streamlit" THEN {} ELSE {"monitoring_error"}
    [] e = "loop_done" -> IF v \in {"debug", "visual"}
                          THEN {"monitoring_stopped"} ELSE {}

\* "if not os.path.exists(basic_dir): return", then
\* process = subprocess.Popen(...): the subprocess runs, or Popen raises and
\* the handler of the outer try ends the thread
ThreadPopen(t) ==
  /\ variant \in PipeVariants
  /\ tpc[t] = "popen"
  /\ \/ /\ tpc' = [tpc EXCEPT ![t] = "dead"]
        /\ last' = Step("no_dir", t, Logs(variant, "no_dir"))
        /\ UNCHANGED <<proc, pipe, beepsat_process>>
     \/ /\ proc' = [proc EXCEPT ![t] = "running"]
        /\ pipe' = [pipe EXCEPT ![t] = 0]
        /\ beepsat_process' =
             IF variant = "visual" THEN t
             ELSE IF beepsat_process = t THEN Stale
             ELSE beepsat_process
        /\ tpc' = [tpc EXCEPT ![t] =
                     IF variant \in {"streamlit", "debug"} THEN "setproc"
                     ELSE "loop"]
        /\ last' = Step("popen", t, Logs(variant, "popen_ok"))
     \/ /\ tpc' = [tpc EXCEPT ![t] = "dead"]
        /\ last' = Step("popen_failed", t, Logs(variant, "popen_failed"))
        /\ UNCHANGED <<proc, pipe, beepsat_process>>
  /\ UNCHANGED <<variant, now, uiPc, telemetry_queue, uiVars, ghostVars,
                 parseVars>>

\* st.session_state.beepsat_process = process
ThreadSetProc(t) ==
  /\ variant \in {"streamlit", "debug"}
  /\ tpc[t] = "setproc"
  /\ beepsat_process' = t
  /\ tpc' = [tpc EXCEPT ![t] = "loop"]
  /\ last' = Quiet
  /\ UNCHANGED <<variant, now, uiPc, telemetry_queue, uiVars, proc, pipe,
                 ghostVars, parseVars>>

\* a subprocess that has ended and that no live thread reads any more can no
\* longer be told from no subprocess: its record returns to "none" and what it
\* left in the pipe is discarded with the pipe
Unread(p, t) == \A u \in Threads \ {t} : Alive(u) => ProcOf(u) # p
Released(pr, p, t) ==
  IF p \in Threads /\ pr[p] # "running" /\ Unread(p, t)
  THEN [pr EXCEPT ![p] = "none"] ELSE pr
Drained(pi, pr, p, t) ==
  IF p \in Threads /\ pr[p] # "running" /\ Unread(p, t)
  THEN [pi EXCEPT ![p] = 0] ELSE pi

\* the thread leaves its loop: "if process.poll() is None: terminate(); wait()"
\* (telemetry_monitor terminates without asking), then the function returns
LeaveLoop(t, logs) ==
  /\ proc' = Released(Terminated(proc, ProcOf(t)), ProcOf(t), t)
  /\ pipe' = Drained(pipe, Terminated(proc, ProcOf(t)), ProcOf(t), t)
  /\ tpc' = [tpc EXCEPT ![t] = "dead"]
  /\ last' = Step(IF proc[ProcOf(t)] = "exited" THEN "proc_ended"
                  ELSE "flag_cleared",
                  t, logs \cup Logs(variant, "loop_done"))

\* "while monitoring and process.poll() is None:" / "while self.running:"
LoopCondition(t) ==
  IF variant = "telemetry_monitor" THEN monitoring
  ELSE monitoring /\ Running(ProcOf(t))

ThreadLoop(t) ==
  /\ variant \in PipeVariants
  /\ tpc[t] = "loop"
  /\ IF LoopCondition(t)
     THEN /\ tpc' = [tpc EXCEPT ![t] = "read"]
          /\ last' = Quiet
          /\ UNCHANGED <<proc, pipe>>
     ELSE LeaveLoop(t, {})
  /\ UNCHANGED <<variant, now, uiPc, telemetry_queue, uiVars, beepsat_process,
                 ghostVars, parseVars>>

\* the log entries of one line read by the loop of script v
LineLogs(v, l) ==
  LET data == ParseTelemetryLine(v, l)
      keyword == \E i \in 1..Len(l) : l[i] = "E"
  IN (IF DecodeFails(v, l) THEN Logs(v, "decode_error") ELSE {})
     \cup (IF Truthy(data) THEN Logs(v, "telemetry") ELSE {})
     \cup (IF keyword /\ (v = "debug" \/ ~Truthy(data))
           THEN Logs(v, "keyword_line") ELSE {})

\* what the loop does with the object parse_telemetry_line returned:
\* "if data: data_queue.put(data)", in telemetry_monitor
\* "if data: self.latest_data = data; self.data_history.append(data)"
HandleData(data) ==
  IF Truthy(data)
  THEN IF variant = "telemetry_monitor"
       THEN /\ StoreSample(Sample(nput + 1, data))
            /\ nput' = nput + 1
            /\ UNCHANGED telemetry_queue
       ELSE /\ QueuePut(Sample(nput + 1, data))
            /\ UNCHANGED <<telemetry_data, plots, current_data, moved>>
  ELSE UNCHANGED <<telemetry_queue, telemetry_data, plots, current_data, nput, moved>>

\* line = process.stdout.readline() returns a line the subprocess wrote
ReadLine(t) ==
  /\ variant \in PipeVariants
  /\ tpc[t] = "read"
  /\ ProcOf(t) \in Threads
  /\ pipe[ProcOf(t)] > 0
  /\ pipe' = [pipe EXCEPT ![ProcOf(t)] = @ - 1]
  /\ \E l \in StdoutLines :
       /\ HandleData(ParseTelemetryLine(variant, l))
       /\ last' = Step(IF DecodeFails(variant, l) THEN "read_bad" ELSE "read",
                       t, LineLogs(variant, l))
  /\ tpc' = [tpc EXCEPT ![t] = "loop"]
  /\ UNCHANGED <<variant, now, uiPc, monitoring, mission_start_time,
                 last_telemetry_time, data_points_generated, simRunning, proc,
                 beepsat_process, clearedAt, dropped, parseVars>>

\* readline returns '' at the end of the stream: streamlit and visual go back
\* to the loop condition, debug and telemetry_monitor ask poll() and break
ReadEOF(t) ==
  /\ variant \in PipeVariants
  /\ tpc[t] = "read"
  /\ ProcOf(t) \in Threads
  /\ pipe[ProcOf(t)] = 0
  /\ proc[ProcOf(t)] \in {"exited", "terminated"}
  /\ IF variant \in {"debug", "telemetry_monitor"}
     THEN LeaveLoop(t, Logs(variant, "eof"))
     ELSE /\ tpc' = [tpc EXCEPT ![t] = "loop"]
          /\ last' = Quiet
          /\ UNCHANGED <<proc, pipe>>
  /\ UNCHANGED <<variant, now, uiPc, telemetry_queue, uiVars, beepsat_process,
                 ghostVars, parseVars>>

\* readline raises (bytes that are no text): streamlit, debug and visual
\* break out of the loop and clean up; in telemetry_monitor the handler of
\* the outer try ends the thread
ReadRaises(t) ==
  /\ variant \in PipeVariants
  /\ tpc[t] = "read"
  /\ ProcOf(t) \in Threads
  /\ pipe[ProcOf(t)] > 0
  /\ tpc' = [tpc EXCEPT ![t] = "dead"]
  /\ IF variant = "telemetry_monitor"
     THEN /\ pipe' = [pipe EXCEPT ![ProcOf(t)] = @ - 1]
          /\ UNCHANGED proc
     ELSE /\ proc' = Released(Terminated(proc, ProcOf(t)), ProcOf(t), t)
          /\ pipe' = Drained([pipe EXCEPT ![ProcOf(t)] = @ - 1],
                             Terminated(proc, ProcOf(t)), ProcOf(t), t)
  /\ last' = Step("read_error", t,
                  IF variant = "telemetry_monitor" THEN {"error"}
                  ELSE Logs(variant, "read_error")
                       \cup Logs(variant, "loop_done"))
  /\ UNCHANGED <<variant, now, uiPc, telemetry_queue, uiVars, beepsat_process,
                 ghostVars, parseVars>>

(***************************************************************************)
(* The subprocess main_emulated.py.                                        *)
(***************************************************************************)
\* the subprocess prints a line
ProcEmit(p) ==
  /\ variant \in PipeVariants
  /\ proc[p] = "running"
  /\ pipe[p] < MaxPipe
  /\ nput + Buffered < MaxPuts
  /\ pipe' = [pipe EXCEPT ![p] = @ + 1]
  /\ last' = Quiet
  /\ UNCHANGED <<variant, now, uiPc, telemetry_queue, uiVars, tpc, proc,
                 beepsat_process, ghostVars, parseVars>>

\* the subprocess ends on its own
ProcExit(p) ==
  /\ variant \in PipeVariants
  /\ proc[p] = "running"
  /\ proc' = [proc EXCEPT ![p] = "exited"]
  /\ last' = Quiet
  /\ UNCHANGED <<variant, now, uiPc, telemetry_queue, uiVars, tpc, pipe,
                 beepsat_process, ghostVars, parseVars>>

SleepLoopStep(t) ==
  \/ LoopCheck(t)
  \/ CheckRunning(t)
  \/ GeneratePut(t)

PipeStep(t) ==
  \/ ThreadPopen(t)
  \/ ThreadLoop(t)
  \/ ReadLine(t)
  \/ ReadEOF(t)
  \/ ReadRaises(t)

ThreadStep(t) ==
  \/ SleepLoopStep(t)
  \/ PipeStep(t)
  \/ ThreadSetProc(t)

ProcStep(p) ==
  \/ ProcEmit(p)
  \/ ProcExit(p)

UiStep ==
  \/ DrainCheck
  \/ DrainGet
  \/ Rerun
  \/ StartMonitoring
  \/ StopMonitoring
  \/ ResetData

(***************************************************************************)
(* simple_telemetry_viewer: "for line in sys.stdin:                        *)
(* data = parse_telemetry_line(line)".  The same line is given to the      *)
(* parse_telemetry_line of every script, so that the parsers can be        *)
(* compared on it.                                                         *)
(***************************************************************************)
Lines == UNION {[1..n -> ParseTokens] : n \in 0..MaxLineLen}

ParseLine ==
  /\ variant \in ViewerVariants
  /\ uiPc = "top"
  /\ \E l \in Lines :
       /\ line' = l
       /\ parsed' = [p \in Parsers |-> ParseTelemetryLine(p, l)]
  /\ uiPc' = "shown"
  /\ last' = Step("parse", 0, {})
  /\ UNCHANGED <<variant, now, telemetry_queue, uiVars, threadVars, ghostVars,
                 calcVars>>

\* the loop goes on to the next line of stdin
NextLine ==
  /\ variant \in ViewerVariants
  /\ uiPc = "shown"
  /\ line' = <<>>
  /\ parsed' = [p \in Parsers |-> None]
  /\ uiPc' = "top"
  /\ last' = Quiet
  /\ UNCHANGED <<variant, now, telemetry_queue, uiVars, threadVars, ghostVars,
                 calcVars>>

ParseNext ==
  \/ ParseLine
  \/ NextLine

(***************************************************************************)
(* SignalProcessor of simple_stats_dashboard: find_peaks, find_valleys,    *)
(* _calculate_prominence and _calculate_width.  Indices are Python's.      *)
(***************************************************************************)
\* a test that takes a point level with a neighbour for a maximum, to
\* compare with
IsLocalMaxOrLevel(vals, i) ==
  At(vals, i) >= At(vals, i - 1) /\ At(vals, i) >= At(vals, i + 1)

\* "if vals[i] > vals[i-1] and vals[i] > vals[i+1]"
IsLocalMax(vals, i) ==
  At(vals, i) > At(vals, i - 1) /\ At(vals, i) > At(vals, i + 1)

\* a loop that stops one index early, to compare with
LastCandidateShort(n) == n - 3

\* "for i in range(1, n - 1)": the last index the loop visits
LastCandidate(n) == n - 2

\* the least of peak_height and of the values at the indices in side
SideMin(vals, peak_idx, side) ==
  LET S == {At(vals, i) : i \in side} \cup {At(vals, peak_idx)}
  IN CHOOSE m \in S : \A x \in S : m <= x
LeftSide(vals, peak_idx) == 0..(peak_idx - 1)
RightSide(vals, peak_idx) == (peak_idx + 1)..(Len(vals) - 1)

\* _calculate_prominence: both loops run to the end of the list
CalculateProminence(vals, peak_idx) ==
  At(vals, peak_idx)
    - Max(SideMin(vals, peak_idx, LeftSide(vals, peak_idx)),
          SideMin(vals, peak_idx, RightSide(vals, peak_idx)))

\* "if values[i] <= height_threshold: break" with height_threshold =
\* base_level + 0.5 * (peak_height - base_level); both sides doubled
AboveHalf(vals, peak_idx, i) ==
  LET base_level == At(vals, peak_idx) - CalculateProminence(vals, peak_idx)
  IN 2 * At(vals, i) > 2 * base_level + (At(vals, peak_idx) - base_level)

\* the samples counted from the peak to one side until the first that is not
\* above the threshold; step is -1 or 1
RECURSIVE SideWidth(_, _, _, _)
SideWidth(vals, peak_idx, i, step) ==
  IF i < 0 \/ i > Len(vals) - 1 \/ ~AboveHalf(vals, peak_idx, i) THEN 0
  ELSE 1 + SideWidth(vals, peak_idx, i + step, step)

\* _calculate_width
CalculateWidth(vals, peak_idx) ==
  SideWidth(vals, peak_idx, peak_idx - 1, 0 - 1)
    + SideWidth(vals, peak_idx, peak_idx + 1, 1) + 1

\* the loop of find_peaks from index i on; min_height is <<>> for None
RECURSIVE ScanPeaks(_, _, _, _, _)
ScanPeaks(vals, i, peaks, min_height, min_distance) ==
  IF i > LastCandidate(Len(vals)) THEN peaks
  ELSE IF /\ IsLocalMax(vals, i)
          /\ (min_height = <<>> \/ At(vals, i) >= min_height[1])
          /\ (peaks = <<>> \/ i - peaks[Len(peaks)] >= min_distance)
       THEN ScanPeaks(vals, i + 1, Append(peaks, i), min_height, min_distance)
       ELSE ScanPeaks(vals, i + 1, peaks, min_height, min_distance)

\* find_peaks: the dict returned; a list shorter than 3 gets no total_peaks
FindPeaks(vals, min_height, min_distance) ==
  IF Len(vals) < 3
  THEN [peaks |-> <<>>, peak_heights |-> <<>>, peak_properties |-> <<>>]
  ELSE LET peaks == ScanPeaks(vals, 1, <<>>, min_height, min_distance)
           properties(i) ==
             [prominence |-> CalculateProminence(vals, i),
              width |-> CalculateWidth(vals, i),
              left_base |-> Max(0, i - (CalculateWidth(vals, i) \div 2)),
              right_base |-> Min(Len(vals) - 1,
                                 i + (CalculateWidth(vals, i) \div 2))]
       IN [peaks |-> peaks,
           peak_heights |-> [k \in 1..Len(peaks) |-> At(vals, peaks[k])],
           peak_properties |->
             [k \in 1..Len(peaks) |-> properties(peaks[k])],
           total_peaks |-> Len(peaks)]

Negated(vals) == [k \in 1..Len(vals) |-> 0 - vals[k]]

\* find_valleys; max_height is <<>> for None
FindValleys(vals, max_height, min_distance) ==
  IF Len(vals) < 3
  THEN [valleys |-> <<>>, valley_depths |-> <<>>, total_valleys |-> 0]
  ELSE LET valley_result ==
             FindPeaks(Negated(vals),
                       IF max_height = <<>> THEN <<>>
                       ELSE <<0 - max_height[1]>>,
                       min_distance)
       IN [valleys |-> valley_result.peaks,
           valley_depths |-> Negated(valley_result.peak_heights),
           total_valleys |-> valley_result.total_peaks]

\* the arguments the calls are made with: the defaults (<<>> is None), and
\* a height and a distance that filter
PeakArgs ==
  {[height |-> h, min_distance |-> d] :
     h \in {<<>>, <<3 * 2 ^ MantissaBits>>}, d \in {1, 2}}

\* what a call records in `result`
Call(op, args, out) == [op |-> op, args |-> args, out |-> out]

FindPeaksCall ==
  /\ variant \in PeakVariants
  /\ uiPc = "top"
  /\ \E args \in PeakArgs :
       result' = Call("find_peaks", args,
                      FindPeaks(values, args.height, args.min_distance))
  /\ uiPc' = "shown"
  /\ last' = Step("find_peaks", 0, {})
  /\ UNCHANGED <<variant, now, telemetry_queue, uiVars, threadVars, ghostVars,
                 line, parsed, values, simulator>>

FindValleysCall ==
  /\ variant \in PeakVariants
  /\ uiPc = "top"
  /\ \E args \in PeakArgs :
       result' = Call("find_valleys", args,
                      FindValleys(values, args.height, args.min_distance))
  /\ uiPc' = "shown"
  /\ last' = Step("find_valleys", 0, {})
  /\ UNCHANGED <<variant, now, telemetry_queue, uiVars, threadVars, ghostVars,
                 line, parsed, values, simulator>>

(***************************************************************************)
(* SignalProcessor.fit_gaussian_peak.  The logarithms are kept in          *)
(* thousandths and sigma and fwhm in hundredths; the amplitude, r_squared, *)
(* peak_area and quality of a fitted result, which need exp, are left out  *)
(* of what the model returns for it.                                       *)
(***************************************************************************)
\* 1000 * math.log(max(d, 0.001)) for a difference d of two readings
LogMilli(d) ==
  IF d <= 0 THEN 0 - 6908
  ELSE CASE d = 4 -> 1386
         [] d = 8 -> 2079
         [] d = 12 -> 2485

\* the sum of the numbers f[i], i in S
RECURSIVE SumOver(_, _)
SumOver(f, S) ==
  IF S = {} THEN 0
  ELSE LET i == CHOOSE j \in S : TRUE IN f[i] + SumOver(f, S \ {i})

\* the integer part of the square root of n, looked for between lo and hi
RECURSIVE SqrtBetween(_, _, _)
SqrtBetween(n, lo, hi) ==
  IF lo >= hi THEN lo
  ELSE LET mid == (lo + hi + 1) \div 2
       IN IF mid * mid <= n THEN SqrtBetween(n, mid, hi)
          ELSE SqrtBetween(n, lo, mid - 1)

\* the x_data of a call: list(range(len(values))) as analyze_signal_peaks
\* passes it, or the same x for every sample
XData(kind, n) == [k \in 1..n |-> IF kind = "indices" THEN k - 1 ELSE 0]

\* the result returned after the try block
Placeholder ==
  [kind |-> "placeholder", r_squared |-> 0, peak_area |-> 0, fwhm |-> 0,
   quality |-> "poor"]

FitGaussianPeak(x_data, y_data, peak_idx) ==
  LET n == Len(y_data)
      window_size == Min(10, n \div 4)
      start_idx == Max(0, peak_idx - window_size)
      end_idx == Min(n, peak_idx + window_size + 1)
      local == start_idx..(end_idx - 1)
      n_points == Cardinality(local)
  IN IF n_points < 3 THEN [kind |-> "None"]
     ELSE
       LET baseline == FDiv(FAdd(At(y_data, start_idx),
                                 At(y_data, end_idx - 1)), 2)
           log_y == [i \in local |-> LogMilli(FSub(At(y_data, i), baseline))]
           x_squared == [i \in local |->
                           (At(x_data, i) - At(x_data, peak_idx))
                             * (At(x_data, i) - At(x_data, peak_idx))]
           sum_x2 == SumOver(x_squared, local)
           sum_x4 == SumOver([i \in local |-> x_squared[i] * x_squared[i]],
                             local)
           sum_y == SumOver(log_y, local)
           sum_x2y == SumOver([i \in local |-> x_squared[i] * log_y[i]], local)
           denominator == n_points * sum_x4 - sum_x2 * sum_x2
           numerator == n_points * sum_x2y - sum_x2 * sum_y
           b_negative == \/ numerator < 0 /\ denominator > 0
                         \/ numerator > 0 /\ denominator < 0
           \* math.sqrt(-0.5 / b), b = numerator / (1000 * denominator)
           sigma == IF b_negative
                    THEN SqrtBetween((5000000 * Abs(denominator))
                                       \div Abs(numerator), 0, 10000)
                    ELSE (100 * n_points) \div 6
       IN IF denominator # 0
          THEN [kind |-> "fitted",
                curvature |-> IF b_negative THEN "negative"
                              ELSE "not_negative",
                sigma |-> sigma,
                fwhm |-> (2355 * sigma) \div 1000]
          ELSE Placeholder

FitGaussianCall ==
  /\ variant \in PeakVariants
  /\ uiPc = "top"
  /\ \E k \in {"indices", "constant"}, peak_idx \in 0..(Len(values) - 1) :
       result' = Call("fit_gaussian_peak", [x |-> k, peak_idx |-> peak_idx],
                      FitGaussianPeak(XData(k, Len(values)), values, peak_idx))
  /\ uiPc' = "shown"
  /\ last' = Step("fit_gaussian_peak", 0, {})
  /\ UNCHANGED <<variant, now, telemetry_queue, uiVars, threadVars, ghostVars,
                 line, parsed, values, simulator>>

(***************************************************************************)
(* SimpleStatCalculator.calculate_stats of simple_stats_dashboard and of   *)
(* stats_dashboard: count, mean, min, max, range, std and anomalies.       *)
(***************************************************************************)
\* math.sqrt(v): the float nearest to the square root.  s is the integer
\* part of 2 * sqrt(v); when that is inexact the root lies above s / 2 and
\* below (s + 1) / 2
FSqrt(v) ==
  LET s == SqrtBetween(4 * v, 0, 4 * v)
  IN IF s * s = 4 * v THEN Round(s, 2) ELSE Round(2 * s + 1, 4)

\* the indices i of seq, in increasing order, at which keep[i] holds
RECURSIVE Kept(_, _)
Kept(i, keep) ==
  IF i > Len(keep) THEN <<>>
  ELSE (IF keep[i] THEN <<i - 1>> ELSE <<>>) \o Kept(i + 1, keep)

\* a loop without the test of std_val, in which the division by a zero
\* std_val raises, to compare with
AnomaliesUnguarded(vals, mean_val, std_val) ==
  IF std_val = 0 THEN <<"ZeroDivisionError">>
  ELSE Kept(1, [k \in 1..Len(vals) |->
                  2 * FDiv(Abs(FSub(vals[k], mean_val)), std_val) > 5])

\* "if std_val > 0:" and the loop "z_score = abs(val - mean_val) / std_val;
\* if z_score > 2.5: anomalies.append(i)"
Anomalies(vals, mean_val, std_val) ==
  IF std_val > 0
  THEN Kept(1, [k \in 1..Len(vals) |->
                  2 * FDiv(Abs(FSub(vals[k], mean_val)), std_val) > 5])
  ELSE <<>>

CalculateStats(vals) ==
  IF vals = <<>> THEN [kind |-> "None"]
  ELSE
    LET n == Len(vals)
        mean_val == FDiv(FSum(vals), n)
        min_val == CHOOSE m \in {vals[k] : k \in 1..n} :
                     \A k \in 1..n : m <= vals[k]
        max_val == CHOOSE m \in {vals[k] : k \in 1..n} :
                     \A k \in 1..n : m >= vals[k]
        squares == [k \in 1..n |->
                      Round(FSub(vals[k], mean_val) * FSub(vals[k], mean_val),
                            1)]
        variance == IF n > 1 THEN FDiv(FSum(squares), n - 1) ELSE 0
        std_val == FSqrt(variance)
    IN [kind |-> "stats",
        count |-> n,
        mean |-> mean_val,
        std |-> std_val,
        min |-> min_val,
        max |-> max_val,
        range |-> FSub(max_val, min_val),
        anomalies |-> Anomalies(vals, mean_val, std_val)]

CalculateStatsCall ==
  /\ variant \in StatVariants
  /\ uiPc = "top"
  /\ result' = Call("calculate_stats", <<>>, CalculateStats(values))
  /\ uiPc' = "shown"
  /\ last' = Step("calculate_stats", 0, {})
  /\ UNCHANGED <<variant, now, telemetry_queue, uiVars, threadVars, ghostVars,
                 line, parsed, values, simulator>>

\* analyze_signal_peaks: the counts and the indices of the dict returned
\* (the fits and the summary text are left out).  peak_threshold is
\* mean_val + 0.1 * signal_range and valley_threshold mean_val - 0.1 *
\* signal_range; values and thresholds are multiplied by 10 * len(values),
\* which keeps them whole numbers and changes no comparison.
AnalyzeSignalPeaks(vals) ==
  IF Len(vals) < 5 THEN [total_peaks |-> 0, total_valleys |-> 0]
  ELSE LET n == Len(vals)
           sum == SumOver(vals, 1..n)
           max_val == CHOOSE m \in {vals[k] : k \in 1..n} :
                        \A k \in 1..n : m >= vals[k]
           min_val == CHOOSE m \in {vals[k] : k \in 1..n} :
                        \A k \in 1..n : m <= vals[k]
           signal_range == max_val - min_val
           scaled == [k \in 1..n |-> 10 * n * vals[k]]
           peak_threshold == 10 * sum + n * signal_range
           valley_threshold == 10 * sum - n * signal_range
           min_distance == Max(2, n \div 20)
           peaks_result == FindPeaks(scaled, <<peak_threshold>>, min_distance)
           valleys_result ==
             FindValleys(scaled, <<valley_threshold>>, min_distance)
       IN [total_peaks |-> peaks_result.total_peaks,
           total_valleys |-> valleys_result.total_valleys,
           peak_indices |-> peaks_result.peaks,
           valley_indices |-> valleys_result.valleys]

AnalyzeSignalPeaksCall ==
  /\ variant \in AnalyzerVariants
  /\ uiPc = "top"
  /\ result' = Call("analyze_signal_peaks", <<>>, AnalyzeSignalPeaks(values))
  /\ uiPc' = "shown"
  /\ last' = Step("analyze_signal_peaks", 0, {})
  /\ UNCHANGED <<variant, now, telemetry_queue, uiVars, threadVars, ghostVars,
                 line, parsed, values, simulator>>

\* the caller is done with what the call returned
Return ==
  /\ variant \in AnalysisVariants
  /\ uiPc = "shown"
  /\ result' = NoResult
  /\ uiPc' = "top"
  /\ last' = Quiet
  /\ UNCHANGED <<variant, now, telemetry_queue, uiVars, threadVars, ghostVars,
                 line, parsed, values, simulator>>

PeakNext ==
  \/ FindPeaksCall
  \/ FindValleysCall
  \/ FitGaussianCall
  \/ Return

(***************************************************************************)
(* The simulators.  A unit of elapsed time is eight hours, so that the     *)
(* discharge of 0.05, 0.03 and 0.02 V an hour is 40, 24 and 16 hundredths  *)
(* of a volt a unit.                                                       *)
(***************************************************************************)
\* the battery_voltage property and get_battery_voltage: the voltage before
\* the return statement bounds it, and the voltage returned
BatteryVoltage(v, elapsed, noise) ==
  LET discharge == IF v = "integrated_simulator" THEN 40
                   ELSE IF v = "fixed_simulator" THEN 24
                   ELSE 16
      voltage == BatteryBase - discharge * elapsed + noise
  IN [voltage |-> voltage,
      returned |-> IF v = "integrated_simulator" THEN Max(voltage, 550)
                   ELSE Max(Min(voltage, 800), 580)]

\* generate_telemetry: the instance after the call and the packet returned.
\* The dict display is evaluated in order: integrated copies self.flags for
\* nvm_flags before the battery_voltage property, read for power_status,
\* assigns self.flags['low_battery'].
GenerateTelemetry(sim, elapsed, error, response, vbus_resets, noise) ==
  LET v == sim.kind
      state_errors == sim.state_errors + (IF error THEN 1 ELSE 0)
      gs_responses ==
        sim.gs_responses
          + (IF response /\ v # "integrated_simulator" THEN 1 ELSE 0)
      battery == BatteryVoltage(v, elapsed, noise)
      counters ==
        [boot_count |-> sim.boot_count, state_errors |-> state_errors,
         gs_responses |-> gs_responses]
      more == [vbus_resets |-> vbus_resets,
               charge_cycles |-> sim.charge_cycles]
      after ==
        [sim EXCEPT !.elapsed = elapsed,
                    !.state_errors = state_errors,
                    !.gs_responses = gs_responses,
                    !.increments = sim.increments
                                     + (state_errors - sim.state_errors)
                                     + (gs_responses - sim.gs_responses),
                    !.flags = IF v = "integrated_simulator"
                              THEN <<battery.voltage < LowBatteryThreshold>>
                              ELSE sim.flags]
  IN [simulator |-> after,
      telemetry |->
        IF v = "integrated_simulator"
          THEN [nvm_counters |-> counters @@ more,
                nvm_flags |-> [low_battery |-> sim.flags[1]],
                power_status |->
                  [battery_voltage |-> battery.returned,
                   low_battery_threshold |-> LowBatteryThreshold]]
        ELSE IF v = "fixed_simulator"
          THEN [nvm_counters |-> counters @@ more,
                nvm_flags |->
                  [low_battery |-> battery.returned < LowBatteryThreshold],
                power_status |->
                  [battery_voltage |-> battery.returned,
                   low_battery_threshold |-> LowBatteryThreshold]]
        ELSE [nvm_counters |-> counters,
              power_status |-> [battery_voltage |-> battery.returned]]]

\* one call of generate_telemetry, at the time of the last call or a unit
\* later.  The noise is an end or the middle of random.uniform(-battery_noise,
\* battery_noise); simple_stats adds a spike of 0.2 to 0.6 V now and then.
GenerateTelemetryCall ==
  /\ variant \in SimulatorVariants
  /\ \E elapsed \in {simulator.elapsed, Min(simulator.elapsed + 1, MaxElapsed)},
        error \in BOOLEAN, response \in BOOLEAN,
        vbus_resets \in 0..(IF variant = "integrated_simulator" THEN 3 ELSE 4),
        noise \in (IF variant = "integrated_simulator" THEN {0 - 20, 0, 20}
                   ELSE IF variant = "fixed_simulator" THEN {0 - 15, 0, 15}
                   ELSE {0 - 15, 0, 15, 15 + 60}) :
       /\ simulator.increments
            + (IF error THEN 1 ELSE 0) + (IF response THEN 1 ELSE 0)
              <= MaxIncrements
       /\ LET call == GenerateTelemetry(simulator, elapsed, error, response,
                                        vbus_resets, noise)
          IN /\ simulator' = call.simulator
             /\ result' = Call("generate_telemetry", <<>>, call.telemetry)
  /\ last' = Step("generate_telemetry", 0, {})
  /\ UNCHANGED <<variant, now, uiPc, telemetry_queue, uiVars, threadVars,
                 ghostVars, line, parsed, values>>

\* reset() of the simulators of integrated_dashboard and fixed_dashboard
SimulatorReset ==
  /\ variant \in {"integrated_simulator", "fixed_simulator"}
  /\ \E e \in {0, 1}, g \in {0, 1} :
       simulator' = [simulator EXCEPT !.elapsed = 0,
                                      !.state_errors = e,
                                      !.gs_responses = g]
  /\ result' = Call("reset", <<>>, <<>>)
  /\ last' = Step("simulator_reset", 0, {})
  /\ UNCHANGED <<variant, now, uiPc, telemetry_queue, uiVars, threadVars,
                 ghostVars, line, parsed, values>>

\* start() of the simulator of integrated_dashboard
SimulatorStart ==
  /\ variant = "integrated_simulator"
  /\ simulator' = [simulator EXCEPT !.elapsed = 0]
  /\ result' = Call("start", <<>>, <<>>)
  /\ last' = Step("simulator_start", 0, {})
  /\ UNCHANGED <<variant, now, uiPc, telemetry_queue, uiVars, threadVars,
                 ghostVars, line, parsed, values>>

SimulatorNext ==
  \/ GenerateTelemetryCall
  \/ SimulatorReset
  \/ SimulatorStart

(***************************************************************************)
(* Specifications.  Spec runs any one of the scripts; the others run the   *)
(* scripts of one family.                                                  *)
(***************************************************************************)
Init == \E v \in Variants : InitState(v)

ThreadNext ==
  \/ UiStep
  \/ \E t \in Threads : ThreadStep(t)
  \/ \E p \in Threads : ProcStep(p)

Next ==
  \/ RenderNext
  \/ ThreadNext
  \/ ParseNext
  \/ PeakNext
  \/ CalculateStatsCall
  \/ AnalyzeSignalPeaksCall
  \/ SimulatorNext

Spec == Init /\ [][Next]_vars

\* the render-loop scripts
RenderInit == \E v \in RenderVariants : InitState(v)
RenderSpec == RenderInit /\ [][RenderNext]_vars

\* the scripts with a producer thread
ThreadInit == \E v \in ThreadVariants : InitState(v)
ThreadSpec == ThreadInit /\ [][ThreadNext]_vars

\* the scripts that simulate the telemetry in their own process
SimulatedInit == \E v \in RenderVariants \cup SleepLoopVariants : InitState(v)
SimulatedNext ==
  \/ RenderNext
  \/ UiStep
  \/ \E t \in Threads : SleepLoopStep(t)
SimulatedSpec == SimulatedInit /\ [][SimulatedNext]_vars

\* the scripts whose producer is cancelled by the flag alone, under fair
\* scheduling of the producer threads; the subprocess is not obliged to print
FlagVariants == SleepLoopVariants \cup {"telemetry_monitor"}
FairInit == \E v \in FlagVariants : InitState(v)
FairNext ==
  \/ UiStep
  \/ \E t \in Threads : SleepLoopStep(t) \/ PipeStep(t)
  \/ \E p \in Threads : ProcStep(p)
FairSpec ==
  /\ FairInit
  /\ [][FairNext]_vars
  /\ \A t \in Threads : WF_vars(SleepLoopStep(t) \/ PipeStep(t))

\* the peak finder
PeakInit == \E v \in PeakVariants : InitState(v)
PeakSpec == PeakInit /\ [][PeakNext]_vars

\* the statistics
StatInit == \E v \in StatVariants : InitState(v)
StatNext ==
  \/ CalculateStatsCall
  \/ Return
StatSpec == StatInit /\ [][StatNext]_vars

\* the peak analysis
AnalyzerInit == \E v \in AnalyzerVariants : InitState(v)
AnalyzerNext ==
  \/ AnalyzeSignalPeaksCall
  \/ Return
AnalyzerSpec == AnalyzerInit /\ [][AnalyzerNext]_vars

\* the simulators
SimulatorInit == \E v \in SimulatorVariants : InitState(v)
SimulatorSpec == SimulatorInit /\ [][SimulatorNext]_vars

\* the parsers
ParseInit == \E v \in ViewerVariants : InitState(v)
ParseSpec == ParseInit /\ [][ParseNext]_vars

(***************************************************************************)
(* Properties.                                                             *)
(***************************************************************************)
\* the ids appended to the history since it was last cleared
SinceClear == SubSeq(moved, clearedAt + 1, Len(moved))
\* the last n elements of seq
LastN(seq, n) == SubSeq(seq, Len(seq) - n + 1, Len(seq))
\* the elements of the set S of numbers in increasing order
RECURSIVE Sorted(_)
Sorted(S) ==
  IF S = {} THEN <<>>
  ELSE LET m == CHOOSE x \in S : \A y \in S : x <= y
       IN <<m>> \o Sorted(S \ {m})

\* C1: in every script the history never holds more than its capacity, and
\* it holds exactly the most recent min(k, capacity) of the k samples
\* appended since it was last cleared, in the order they were appended.
C1_HistoryBounded ==
  /\ Len(telemetry_data) <= Capacity(variant)
  /\ Ids(telemetry_data) =
       LastN(SinceClear, Min(Len(SinceClear), Capacity(variant)))

\* a history that has discarded its oldest sample
C1_Evicted ==
  /\ variant \in {"simple_stats", "integrated", "streamlit", "telemetry_monitor"}
  /\ Len(SinceClear) > Capacity(variant)
  /\ Len(telemetry_data) = Capacity(variant)
  /\ last.op \in {"generate", "drain_get", "read"}

\* what is put is what was moved followed by what is queued, less what a
\* queue clear removed; the end of a drain and each of its moves
C2_Conserved ==
  variant \in QueueVariants =>
    /\ moved \o Ids(telemetry_queue) = Sorted((1..nput) \ dropped)
    /\ last.op = "drain_end" =>
         /\ telemetry_queue = <<>>
         /\ current_data # <<>> => current_data[1].id = moved[Len(moved)]
    /\ last.op = "drain_get" /\ variant # "ground_station" =>
         /\ moved # <<>>
         /\ current_data # <<>>
         /\ current_data[1].id = moved[Len(moved)]
C2_ClearedByResetOrDebugStart ==
  dropped' # dropped =>
    \/ last'.op = "reset"
    \/ variant = "debug" /\ last'.op = "start"
C2_ClearedByReset == dropped' # dropped => last'.op = "reset"

\* C2 (amended): the samples put on the queue are, in the order of the puts,
\* those moved to the history followed by those still queued, each one once,
\* except those a queue clear removed; a queue clear happens only in a reset
\* and in the start_monitoring of debug_dashboard.  When a drain ends the
\* queue is empty, and current_data is the sample moved last.
C2_QueueToHistory ==
  []C2_Conserved /\ [][C2_ClearedByResetOrDebugStart]_vars

\* a drain has ended in a run in which two samples were moved to the history
\* and a queue clear removed another
C2_Drained ==
  /\ variant \in QueueVariants
  /\ last.op = "drain_end"
  /\ Len(moved) >= 2
  /\ dropped # {}

\* C2 as stated: only a reset removes a queued sample
C2_AsStated == []C2_Conserved /\ [][C2_ClearedByReset]_vars

\* C3 as stated: at most one producer thread is alive
C3_AtMostOneProducer == Cardinality(AliveThreads) <= 1

C4_Created == nput' # nput
C4_Appended == moved' # moved \/ Len(telemetry_data') > Len(telemetry_data)
C4_RenderStep ==
  variant \in RenderVariants /\ (C4_Created \/ C4_Appended) => monitoring
C4_EveryStep == C4_Appended => monitoring

\* C4 (amended): in the render-loop scripts a sample is created and appended
\* to the history only in a step that begins with monitoring true.
C4_RenderGrowsWhileMonitoring == [][C4_RenderStep]_vars

\* generate_telemetry_data has returned without a sample although one was
\* due, because monitoring is false
C4_StoppedNoSample ==
  /\ variant \in RenderVariants
  /\ ~monitoring
  /\ uiPc = "buttons"
  /\ telemetry_data # <<>>
  /\ now - last_telemetry_time >= GenerationPeriod

\* C4 as stated: in every script the history grows only while monitoring
C4_AsStated == [][C4_EveryStep]_vars

\* C5: after reset_mission monitoring is false, the history and current_data
\* are empty, mission_start_time is unset, and last_telemetry_time and
\* data_points_generated are 0.
C5_ResetMission ==
  variant \in RenderVariants /\ last.op = "reset" =>
    /\ ~monitoring
    /\ telemetry_data = <<>>
    /\ current_data = <<>>
    /\ mission_start_time = <<>>
    /\ last_telemetry_time = 0
    /\ data_points_generated = 0

\* reset_mission has run on a history that had discarded samples
C5_ResetOfFullHistory ==
  /\ variant \in {"simple_stats", "stats", "fixed"}
  /\ last.op = "reset"
  /\ Len(moved) - clearedAt = 0
  /\ clearedAt > Capacity(variant)

\* C6 (amended): in the scripts with a sleep-loop producer, whenever the flag
\* is false, either it is set again or every producer thread ends.
C6_SleepLoopCancelled ==
  (variant \in SleepLoopVariants /\ ~monitoring)
    ~> (monitoring \/ AliveThreads = {})

\* a sleep-loop producer that had put samples has seen the flag false and ended
C6_ProducerLeft ==
  /\ variant \in SleepLoopVariants
  /\ last.op = "flag_cleared"
  /\ ~monitoring
  /\ AliveThreads = {}
  /\ nput > 0

\* C6 as stated: the same of every producer, the pipe readers included
C6_AsStated == ~monitoring ~> (monitoring \/ AliveThreads = {})

\* the object json.loads gives for the text of l from the first '{' after the
\* first marker
C7_FirstMarker(l) == CHOOSE i \in 1..Len(l) :
                       l[i] \in Markers /\ \A j \in 1..(i - 1) : l[j] \notin Markers
C7_ClaimedParse(l) ==
  IF ~HasMarker(l) THEN None
  ELSE LET rest == SubSeq(l, C7_FirstMarker(l) + 1, Len(l))
       IN IF FindText(rest) = <<>> \/ JsonLoads(FindText(rest)) = JSONDecodeError
          THEN None
          ELSE JsonLoads(FindText(rest))

\* C7 as stated: the parse begins at the first '{' after the marker, and
\* every script's parser returns the same
C7_AsStated ==
  uiPc = "shown" => \A p \in Parsers : parsed[p] = C7_ClaimedParse(line)

C8_Dropped ==
  last'.op = "read_bad" =>
    /\ telemetry_queue' = telemetry_queue
    /\ telemetry_data' = telemetry_data
    /\ current_data' = current_data
    /\ nput' = nput
    /\ tpc'[last'.t] = "loop"

\* C8: a read of a marked line whose text json.loads rejects leaves the
\* queue, the history and current_data as they were, and the thread is back
\* at the condition of its loop.
C8_MalformedLineDropped == [][C8_Dropped]_vars

\* a malformed line has been read after a sample was accepted
C8_BadLineRead ==
  /\ last.op = "read_bad"
  /\ nput > 0
  /\ tpc[last.t] = "loop"

\* C9 as stated: every decode failure writes a log entry
C9_AsStated == last.op = "read_bad" => "json_decode_error" \in last.log

\* C10 as stated: a subprocess that cannot be started or that ends on its own
\* ends the thread with a log entry
C10_AsStated ==
  last.op \in {"no_dir", "popen_failed", "proc_ended"} =>
    /\ last.log # {}
    /\ tpc[last.t] = "dead"

\* C11 as stated: every invocation of the tkinter drain ends by scheduling
\* the next one, whatever object the queue delivered
C11_AsStated == variant \in TkVariants => uiPc # "idle"

C12_PutEnabled ==
  variant \in SleepLoopVariants =>
    \A t \in Threads : tpc[t] = "put" => ENABLED GeneratePut(t)
C12_PutAppends ==
  variant \in SleepLoopVariants /\ last'.op = "put" =>
    /\ Len(telemetry_queue') = Len(telemetry_queue) + 1
    /\ telemetry_queue'[Len(telemetry_queue')].id = nput'
    /\ SubSeq(telemetry_queue', 1, Len(telemetry_queue)) = telemetry_queue
C12_NeverDrained ==
  variant \in SleepLoopVariants /\ moved = <<>> /\ dropped = {} =>
    Len(telemetry_queue) = nput

\* C12: in integrated_dashboard and in the console monitor of
\* ground_station_dashboard the producer's put is never blocked and never
\* drops: a thread at its put can always take it, whatever the queue holds,
\* each put lengthens the queue by the sample put, and as long as the UI has
\* neither drained nor cleared the queue it holds every sample put so far.
C12_QueueUnbounded ==
  [](C12_PutEnabled /\ C12_NeverDrained) /\ [][C12_PutAppends]_vars

\* every sample the run may produce is queued while monitoring is active and
\* the UI has not drained
C12_AllQueued ==
  /\ variant \in SleepLoopVariants
  /\ monitoring
  /\ last.op = "put"
  /\ moved = <<>>
  /\ Len(telemetry_queue) = MaxPuts

\* the values rise strictly up to index p and fall strictly after it
C13_Unimodal(vals, p) ==
  /\ 0 < p /\ p < Len(vals) - 1
  /\ \A i \in 0..(p - 1) : At(vals, i) < At(vals, i + 1)
  /\ \A i \in p..(Len(vals) - 2) : At(vals, i) > At(vals, i + 1)
C13_DefaultCall(op) ==
  /\ result.op = op
  /\ result.args = [height |-> <<>>, min_distance |-> 1]

\* C13: find_peaks with its default parameters, on at least 3 values that
\* rise strictly up to one interior index p and fall strictly after it,
\* returns peaks = [p], peak_heights = [values[p]] and total_peaks = 1.
C13_OnePeak ==
  C13_DefaultCall("find_peaks") /\ Len(values) >= 3 =>
    \A p \in 0..(Len(values) - 1) :
      C13_Unimodal(values, p) =>
        /\ result.out.peaks = <<p>>
        /\ result.out.peak_heights = <<At(values, p)>>
        /\ "total_peaks" \in DOMAIN result.out
        /\ result.out.total_peaks = 1

\* find_peaks has returned for a list of MaxSamples values whose one peak is
\* the last index the loop visits
C13_PeakBeforeEnd ==
  /\ C13_DefaultCall("find_peaks")
  /\ Len(values) = MaxSamples
  /\ C13_Unimodal(values, MaxSamples - 2)
  /\ result.out.total_peaks = 1

\* the interior indices whose value is strictly above (below) both neighbours
C14_StrictMaxima(vals) ==
  {i \in 1..(Len(vals) - 2) :
     At(vals, i) > At(vals, i - 1) /\ At(vals, i) > At(vals, i + 1)}
C14_StrictMinima(vals) ==
  {i \in 1..(Len(vals) - 2) :
     At(vals, i) < At(vals, i - 1) /\ At(vals, i) < At(vals, i + 1)}
C14_Reported(seq) == {seq[k] : k \in 1..Len(seq)}

\* C14: whatever its parameters, find_peaks reports only interior indices
\* whose value is strictly greater than both neighbours and find_valleys only
\* interior indices whose value is strictly lower than both; with the default
\* parameters each of them is reported, once and in increasing order.  No
\* index at an end of the list or level with a neighbour is reported.
C14_StrictExtrema ==
  /\ result.op = "find_peaks" =>
       /\ C14_Reported(result.out.peaks) \subseteq C14_StrictMaxima(values)
       /\ C13_DefaultCall("find_peaks") =>
            result.out.peaks = Sorted(C14_StrictMaxima(values))
  /\ result.op = "find_valleys" =>
       /\ C14_Reported(result.out.valleys) \subseteq C14_StrictMinima(values)
       /\ C13_DefaultCall("find_valleys") =>
            result.out.valleys = Sorted(C14_StrictMinima(values))

\* find_valleys has returned one valley for a list in which another interior
\* value is below its left neighbour and level with its right one
C14_ValleyAndPlateau ==
  /\ C13_DefaultCall("find_valleys")
  /\ Len(result.out.valleys) = 1
  /\ \E i \in 1..(Len(values) - 3) :
       /\ At(values, i) = At(values, i + 1)
       /\ At(values, i) < At(values, i - 1)
       /\ i + 2 \in C14_Reported(result.out.valleys)

\* the value of the sample nearest to the peak among those of `side` that are
\* lower than the peak; the height of the peak when there is none
C15_NearestLower(vals, peak_idx, side) ==
  LET lower == {i \in side : At(vals, i) < At(vals, peak_idx)}
  IN IF lower = {} THEN At(vals, peak_idx)
     ELSE At(vals, CHOOSE i \in lower :
                     \A j \in lower : Abs(i - peak_idx) <= Abs(j - peak_idx))

\* C15 as stated: the prominence of a reported peak is its height less the
\* higher of the values of its nearest lower neighbour on each side
C15_AsStated ==
  result.op = "find_peaks" =>
    \A k \in 1..Len(result.out.peaks) :
      result.out.peak_properties[k].prominence =
        At(values, result.out.peaks[k])
          - Max(C15_NearestLower(values, result.out.peaks[k],
                                 LeftSide(values, result.out.peaks[k])),
                C15_NearestLower(values, result.out.peaks[k],
                                 RightSide(values, result.out.peaks[k])))

\* C16 as stated: fit_gaussian_peak returns the placeholder whenever the
\* fitted curvature is not negative or the denominator is zero
C16_AsStated ==
  result.op = "fit_gaussian_peak" /\ result.out.kind = "fitted" =>
    result.out.curvature = "negative"

C17_Returned == result.op = "calculate_stats" /\ result.out.kind = "stats"

\* C17 as stated: the mean calculate_stats returns lies between the min and
\* the max it returns
C17_AsStated ==
  C17_Returned =>
    result.out.min <= result.out.mean /\ result.out.mean <= result.out.max

C18_AllEqual(vals) == \A j, k \in 1..Len(vals) : vals[j] = vals[k]

\* C18: whenever the std calculate_stats returns is zero, the anomalies it
\* returns are the empty list, whatever the length of the input.  The std of
\* a single sample is zero, and the anomalies of equal samples are empty.
C18_NoSpreadNoAnomaly ==
  C17_Returned =>
    /\ result.out.std = 0 => result.out.anomalies = <<>>
    /\ Len(values) = 1 => result.out.std = 0
    /\ C18_AllEqual(values) => result.out.anomalies = <<>>

\* calculate_stats has returned std 0 for more than two equal values
C18_EqualSamples ==
  /\ C17_Returned
  /\ Len(values) > 2
  /\ result.out.std = 0
  /\ result.out.anomalies = <<>>

\* C19: across two successive packets of one simulator instance, with no
\* reset or restart between them, no value of nvm_counters decreases.
C19_AsStated ==
  [][(result.op = "generate_telemetry" /\ result'.op = "generate_telemetry")
       => \A c \in DOMAIN result.out.nvm_counters :
            result'.out.nvm_counters[c] >= result.out.nvm_counters[c]]_vars

\* C20: in every packet that carries nvm_flags, low_battery is true exactly
\* when the battery_voltage of the same packet is below the threshold.
C20_AsStated ==
  (result.op = "generate_telemetry" /\ "nvm_flags" \in DOMAIN result.out)
    => (result.out.nvm_flags.low_battery
          <=> result.out.power_status.battery_voltage < LowBatteryThreshold)

\* C21: in integrated_dashboard, from the return of reset_mission to the next
\* start_monitoring (mission_start_time is None exactly then and before the
\* first start) the history and current_data are empty, whatever the
\* generator thread does.
C21_AsStated ==
  (variant = "integrated" /\ mission_start_time = <<>>)
    => (telemetry_data = <<>> /\ current_data = <<>>)

\* C22: for at least 5 values with one strict interior maximum at index p
\* (rising strictly before p, falling strictly after it),
\* analyze_signal_peaks reports total_peaks = 1 and peak_indices = [p].
C22_AsStated ==
  (result.op = "analyze_signal_peaks" /\ Len(values) >= 5) =>
    \A p \in 0..(Len(values) - 1) :
      C13_Unimodal(values, p) =>
        /\ result.out.total_peaks = 1
        /\ result.out.peak_indices = <<p>>

\* C23: while monitoring is active, a render-loop dashboard that has done
\* the generation of its render cycle has generated one sample for every
\* 0.5 s (one unit of `now`) since the mission started.
C23_AsStated ==
  (variant \in RenderVariants /\ monitoring /\ uiPc = "buttons") =>
    data_points_generated = now - mission_start_time[1]

\* the session state of a render-loop script
C24_Session ==
  <<monitoring, telemetry_data, current_data, mission_start_time,
    last_telemetry_time, data_points_generated, simulator>>
C24_Frame ==
  variant \in {"simple_stats", "stats"} =>
    /\ (last'.op = "start" /\ monitoring) => UNCHANGED C24_Session
    /\ (last'.op = "stop" /\ ~monitoring) => UNCHANGED C24_Session
    /\ (last'.op = "stop" /\ monitoring) =>
         /\ ~monitoring'
         /\ UNCHANGED <<telemetry_data, current_data, mission_start_time,
                        last_telemetry_time, data_points_generated, simulator>>

\* C24: in simple_stats_dashboard and stats_dashboard, start_monitoring
\* while monitoring is active and stop_monitoring while it is inactive
\* change nothing of the session state; stop_monitoring while active clears
\* the monitoring flag and leaves the history, current_data,
\* mission_start_time, the simulator and data_points_generated as they were.
C24_StartStopFrame == [][C24_Frame]_vars

\* monitoring was stopped while active, after samples were generated and
\* with no reset since: the mission has a start time and a history
C24_StoppedWithHistory ==
  /\ variant = "simple_stats"
  /\ last.op = "stop"
  /\ ~monitoring
  /\ mission_start_time # <<>>
  /\ data_points_generated > 1
  /\ Len(telemetry_data) > 1
  /\ simulator.start_time > 1

\* C25: in the scripts that keep current_data (every script with a history
\* but the ground station dashboard), after any sequence of start, stop,
\* reset, generation and drain steps, current_data is the newest element of
\* the history when the history is not empty, and is empty when it is.
C25_CurrentIsNewest ==
  variant \in RenderVariants \cup (ThreadVariants \ {"ground_station"}) =>
    /\ telemetry_data # <<>> =>
         current_data = <<telemetry_data[Len(telemetry_data)]>>
    /\ telemetry_data = <<>> => current_data = <<>>

\* a sample was moved from the queue to the history after a reset that
\* cleared an earlier one
C25_RefilledAfterReset ==
  /\ variant = "integrated"
  /\ last.op = "drain_get"
  /\ clearedAt > 0
  /\ telemetry_data # <<>>
  /\ current_data # <<>>

\* C26: in simple_stats_dashboard and fixed_dashboard the history holds
\* min(data_points_generated, capacity) samples in every reachable state.
C26_AsStated ==
  variant \in {"simple_stats", "fixed"} =>
    Len(telemetry_data) = Min(data_points_generated, Capacity(variant))

\* C27: in the tkinter dashboards, whenever update_plots has points to draw
\* (two timestamps or more), the five plot series have the same length, and
\* that length is at most max_points.
C27_AsStated ==
  (variant \in TkVariants /\ Len(plots.timestamps) >= 2) =>
    \A series \in DOMAIN plots :
      /\ Len(plots[series]) = Len(plots.timestamps)
      /\ Len(plots[series]) <= PlotCapacity(variant)

\* C28: calculate_stats flags no anomaly in a list of fewer than 9 values.
C28_AsStated ==
  (result.op = "calculate_stats" /\ Len(values) >= 1 /\ Len(values) < 9) =>
    result.out.anomalies = <<>>


\* C29: a producer thread that has started its subprocess does not end while
\* that subprocess is still running: on every step that ends the thread, the
\* subprocess has exited or has been sent terminate.
C29_AsStated ==
  [][\A t \in Threads :
       (/\ variant \in PipeVariants
        /\ tpc[t] \in {"setproc", "loop", "read"}
        /\ tpc'[t] = "dead") => proc'[t] # "running"]_vars


\* C30: while the monitoring / running flag of streamlit_dashboard,
\* visual_dashboard or telemetry_monitor is true, a producer thread is alive.
C30_AsStated ==
  (variant \in {"streamlit", "visual", "telemetry_monitor"} /\ monitoring) =>
    AliveThreads # {}

====
